---- MODULE Spec2Model ----
(***************************************************************************)
(* QNOS-QISKIT: the hardware execution pipeline (QNOSBackend._execute),    *)
(* the job record (HardwareJob), the simulated and the serial device link  *)
(* and the calibration sweeps (CalibrationManager), as a state machine.    *)
(*                                                                         *)
(* A frame is represented by the set of grid sites whose spot is lit in    *)
(* it: the simulated device draws one filled disc of radius 20 per active  *)
(* site on a black 480x640 image and adds zero noise, so the lit set       *)
(* determines every pixel.  Grid sites are <<row, col>>, pixels <<x, y>>.  *)
(***************************************************************************)
EXTENDS Integers, Sequences, FiniteSets, TLC

(***************************************************************************)
(* Bounds of the model.                                                    *)
(***************************************************************************)
MaxOps == 2
MaxClbits == 2
MaxExec == 2
MaxGrid == 2
MaxSweeps == 2

\* length of a frame on the serial link, in units of half a read request
MaxFrameUnits == 6

\* the clock of a reception stops being advanced after this many ticks of 10 s
MaxClock == 18

\* trials on one backend whose results are kept
MaxTrials == 2

(***************************************************************************)
(* Program constants.                                                      *)
(***************************************************************************)
GridWidth == 8
MaxQubits == 64
ImgHeight == 480
ImgWidth == 640
SpotRadius == 20
SpotPitchX == 80
SpotPitchY == 60
SpotOffsetX == 40
SpotOffsetY == 30
RoiRadius == 15
Thresh == 50
CMaxNum == 1
CMaxDen == 5
ResetDurationMs == 100
DefaultDurationMs == 50
White == 255
None == -1

ImgPixels == ImgHeight * ImgWidth

Abs(x) == IF x < 0 THEN -x ELSE x

Min(a, b) == IF a < b THEN a ELSE b

Max(a, b) == IF a > b THEN a ELSE b

(***************************************************************************)
(* Grid geometry.                                                          *)
(***************************************************************************)
AllSites == (0 .. GridWidth - 1) \X (0 .. GridWidth - 1)

\* divmod(p, 8)
QubitSite(p) == <<p \div GridWidth, p % GridWidth>>

\* qubit = row * 8 + col
SiteQubit(s) == s[1] * GridWidth + s[2]

\* centre of the disc the simulated device draws for an active site
SpotCentre(s) == <<s[2] * SpotPitchX + SpotOffsetX, s[1] * SpotPitchY + SpotOffsetY>>

Dist2(p, q) == (p[1] - q[1]) * (p[1] - q[1]) + (p[2] - q[2]) * (p[2] - q[2])

\* the pixels of a filled disc that fall inside the image
DiscPixels(centre, radius) ==
    {p \in ((centre[1] - radius) .. (centre[1] + radius)) \X
           ((centre[2] - radius) .. (centre[2] + radius)) :
        /\ Dist2(p, centre) <= radius * radius
        /\ p[1] >= 0 /\ p[1] < ImgWidth
        /\ p[2] >= 0 /\ p[2] < ImgHeight}

\* number of pixels one spot lights
SpotArea == Cardinality(DiscPixels(SpotCentre(<<0, 0>>), SpotRadius))

\* the mapping that matches the simulated device
FullMapping == [s \in AllSites |-> SpotCentre(s)]

(***************************************************************************)
(* Intensities are carried as integers in units of 1/ImgPixels of a grey   *)
(* level, so that the mean of a whole frame is an integer.                 *)
(***************************************************************************)
\* np.mean(frame) of a frame with the given lit sites
FrameMean(frame) == White * SpotArea * Cardinality(frame)

\* cv2.mean(masked, mask)[0]: mean grey level inside the ROI disc
RoiMean(frame, centre) ==
    IF \E s \in frame :
          Dist2(SpotCentre(s), centre) <=
              (SpotRadius - RoiRadius) * (SpotRadius - RoiRadius)
    THEN White * ImgPixels
    ELSE IF \A s \in frame :
          Dist2(SpotCentre(s), centre) >
              (SpotRadius + RoiRadius) * (SpotRadius + RoiRadius)
    THEN 0
    ELSE LET roi == DiscPixels(centre, RoiRadius)
             lit == {p \in roi : \E s \in frame :
                        Dist2(p, SpotCentre(s)) <= SpotRadius * SpotRadius}
         IN ((White * Cardinality(lit)) \div Cardinality(roi)) * ImgPixels

\* contrast, p1 and state of process_image for one mapped site.
\*   contrast = (i_off - background) / max(thresh - background, 1e-6)
\*              if thresh - background != 0 else 0
\*   p1 = min(max(contrast / c_max, 0), 1);  state = 1 if p1 > 0.5 else 0
\* With a positive denominator d, p1 > 0.5 iff 2 * (i_off - background) * CMaxDen >
\* CMaxNum * d.  When thresh - background < 0 the denominator is 1e-6, below
\* one unit of the integer scale, so the test is i_off - background > 0.
DecodeState(i_off, background, thresh) ==
    IF thresh - background = 0 THEN 0
    ELSE IF thresh - background > 0
         THEN IF 2 * CMaxDen * (i_off - background) > CMaxNum * (thresh - background)
              THEN 1 ELSE 0
         ELSE IF i_off - background > 0 THEN 1 ELSE 0

\* a decode that reads an unmapped site at the pixel the device lights for it
process_imageReadUnmapped(image, map, num_qubits, background_image, thresh) ==
    LET background == FrameMean(background_image)
    IN [i \in 0 .. num_qubits - 1 |->
          DecodeState(RoiMean(image, IF QubitSite(i) \in DOMAIN map THEN map[QubitSite(i)]
                              ELSE SpotCentre(QubitSite(i))),
                      background, thresh * ImgPixels)]

\* QubitImageProcessor.process_image
process_image(image, map, num_qubits, background_image, thresh) ==
    LET background == FrameMean(background_image)
    IN [i \in 0 .. num_qubits - 1 |->
          IF QubitSite(i) \notin DOMAIN map THEN 0
          ELSE DecodeState(RoiMean(image, map[QubitSite(i)]), background,
                           thresh * ImgPixels)]

(***************************************************************************)
(* Numbers of the command protocol.  Frequencies are counted in units of   *)
(* 2.5 (the carrier _execute sends is 2.5, the simulated device's          *)
(* sim_freq is 2.5e9), amplitudes in tenths, phases in quarters of pi.     *)
(***************************************************************************)
Carrier == 1
SimFreq == 1000000000
SimNoiseDen == 10
Pi == 4
AmpFull == 10
AmpHalf == 5
PulseLongNs == 100
PulseShortNs == 50

EmptyFn == [x \in {} |-> 0]

Put(f, k, v) == [x \in (DOMAIN f) \cup {k} |-> IF x = k THEN v ELSE f[x]]

Get(f, k, default) == IF k \in DOMAIN f THEN f[k] ELSE default

(***************************************************************************)
(* State.                                                                  *)
(***************************************************************************)
VARIABLES
    link,               \* "sim": SimulatedFPGAConnection, "real": FPGAConnection
    use_mock_hardware,  \* QNOSBackend.use_mock_hardware
    mapping,            \* QNOSBackend.mapping
    active_lasers,      \* SimulatedFPGAConnection.active_lasers
    sim_states,         \* SimulatedFPGAConnection.sim_states
    job_status,         \* HardwareJob._status ("NONE": no job created yet)
    job_result,         \* HardwareJob._result (None or the final bitstring)
    circuit,            \* HardwareJob._circuit: the operation sequence
    num_clbits,         \* transpiled.num_clbits
    pc,                 \* position inside result() / _execute
    bitstring_sim,      \* the oracle bitstring
    oracle_failed,      \* the Aer call raised
    gate_idx,           \* loop index of the gate dispatch
    measured_map,       \* the measurement map
    viz_idx,            \* loop index of the visualization drive
    viz_fired,          \* classical-bit indices whose site the drive fired
    background_image,   \* frame returned by capture_background
    image,              \* frame returned by the readout capture
    states,             \* result of process_image
    final_bitstring,    \* the assembled bitstring
    cmds,               \* commands sent over the link by this _execute call
    exec_starts,        \* _execute calls started for the current job
    exec_done,          \* _execute calls of the current job that returned
    cancelled,          \* cancel() was called on the current job
    ret,                \* what the last API call returned
    cal_mapping,        \* CalibrationManager.mapping
    grid_size,          \* CalibrationManager.grid_size
    cal_pc,             \* position inside a calibration sweep
    cal_pos,            \* index of the next site of the sweep (row-major)
    cal_background,     \* background frame of auto_calibrate
    cal_results,        \* the results record of auto_calibrate
    cal_visited,        \* sites the running sweep fired, in order
    cal_report,         \* what validate_calibration returned last
    cal_runs,           \* calibration sweeps started so far
    dead_sites,         \* sites the device fails to illuminate
    call,               \* arguments of the last direct call of a processor or link method
    results,            \* the trials completed on the simulated device, in order
    stored,             \* the calibration document held by the file and by the database
    cli                 \* the CLI command in progress and the device link it opened

devVars == <<active_lasers, sim_states>>
cfgVars == <<link, use_mock_hardware, mapping, dead_sites>>
jobVars == <<job_status, job_result, circuit, num_clbits, exec_starts, exec_done,
             cancelled>>
runVars == <<bitstring_sim, oracle_failed, gate_idx, measured_map, viz_idx,
             viz_fired, background_image, image, states, final_bitstring, cmds>>
calVars == <<cal_mapping, grid_size, cal_pc, cal_pos, cal_background, cal_results,
             cal_visited, cal_report, cal_runs>>
\* what lives outside the backend: the stores and the CLI session
extVars == <<stored, cli>>
vars == <<cfgVars, devVars, jobVars, runVars, calVars, pc, ret, call, results, extVars>>

(***************************************************************************)
(* SimulatedFPGAConnection.send_command: each operator gives the device    *)
(* state after the command; the response is SimResponse.                   *)
(***************************************************************************)
\* self.responses.get(command_type, "ERR")
SimResponses == [FIRE_LASER |-> "OK", APPLY_PULSE |-> "OK",
                 CAPTURE_FRAME |-> "OK", CAPTURE_DARK |-> "OK"]

\* FIRE_LASER row col duration: a site in dead_sites is one whose emitter
\* stays dark (the shipped simulated device has none).
SimFireActive(al, dead, s) == IF s \in dead THEN al ELSE al \cup {s}

SimFireStates(ss, s) == Put(ss, SiteQubit(s), 1)

\* the frequency test of APPLY_PULSE: TRUE when the pulse is rejected
SimPulseRejected(freq) == Abs(freq - SimFreq) > SimFreq \div SimNoiseDen

\* APPLY_PULSE q freq amp duration phase, q an int (q1 = None) or a pair;
\* flip is the outcome of np.random.rand() < sim_noise_level
SimPulseStates(ss, q0, q1, freq, phase, flip) ==
    IF SimPulseRejected(freq) THEN ss
    ELSE IF q1 = None
    THEN LET s0 == IF q0 \in DOMAIN ss THEN ss ELSE Put(ss, q0, 0)
         IN IF phase = Pi THEN Put(s0, q0, 1 - s0[q0])
            ELSE IF Abs(phase) > 0 /\ flip THEN Put(s0, q0, 1 - s0[q0])
            ELSE s0
    ELSE IF Get(ss, q0, 0) = 1
         THEN Put(ss, q1, (Get(ss, q1, 0) + (phase \div Pi)) % 2)
         ELSE ss

SimPulseResponse(freq) ==
    IF SimPulseRejected(freq) THEN "ERR" ELSE SimResponses.APPLY_PULSE

\* SimulatedFPGAConnection.receive_image: the frame drawn from active_lasers
SimFrame(al) == al

\* receive_image ends with self.active_lasers.clear()
SimReceiveActive(al) == {}

\* CAPTURE_DARK: self.active_lasers.clear() and self.sim_states.clear()
SimDarkActive(al) == {}

SimDarkStates(ss) == EmptyFn

(***************************************************************************)
(* FPGAConnection (the serial link): a command is answered OK or anything  *)
(* else, and anything else raises; a frame is whatever the sensor sees.    *)
(***************************************************************************)
LinkOutcomes == IF link = "sim" THEN {"OK"} ELSE {"OK", "RAISE"}

ModelQubits == {0, 9}

RealFrames == {{}, {QubitSite(0)}}

FramesOf(al) == IF link = "sim" THEN {SimFrame(al)} ELSE RealFrames

(***************************************************************************)
(* Circuits: operation sequences over a small alphabet.                    *)
(***************************************************************************)
Op(name, qubits, clbit, param) ==
    [name |-> name, qubits |-> qubits, clbit |-> clbit, param |-> param]

GateOps ==
    { Op("h", <<0>>, None, 0), Op("x", <<9>>, None, 0),
      Op("rz", <<0>>, None, Pi), Op("ry", <<9>>, None, 2),
      Op("cp", <<0, 9>>, None, Pi), Op("y", <<0>>, None, 0),
      Op("s", <<9>>, None, 0), Op("t", <<0>>, None, 0),
      Op("barrier", <<0, 9>>, None, 0) }

MeasureOps(L) == {Op("measure", <<q>>, c, 0) : q \in ModelQubits, c \in 0 .. L - 1}

\* a qubit measured, flipped and measured again into the next classical bit
Remeasure(L) ==
    <<Op("measure", <<0>>, 0, 0), Op("x", <<0>>, None, 0), Op("measure", <<0>>, L - 1, 0)>>

Circuits(L) ==
    UNION {[1 .. n -> GateOps \cup MeasureOps(L)] : n \in 0 .. MaxOps} \cup {Remeasure(L)}

Bit == {"0", "1"}

Zeros(L) == [i \in 1 .. L |-> "0"]

\* str(int(raw_val))
StrOfBit(b) == IF b = 1 THEN "1" ELSE "0"

\* a qubit of the oracle in the computational basis: 0, 1, or either
Either == 2

\* The classical registers one shot of the oracle can end with.  x and y
\* flip a definite qubit, h and ry(pi/2) leave it undetermined, the diagonal
\* gates and barrier keep its populations, measure copies a definite qubit and
\* collapses an undetermined one to either value.
RECURSIVE AerRegisters(_, _, _, _)
AerRegisters(circ, i, q, c) ==
    IF i > Len(circ) THEN {c}
    ELSE LET o == circ[i]
             t == o.qubits[1]
         IN CASE o.name \in {"x", "y"} ->
                   AerRegisters(circ, i + 1,
                                [q EXCEPT ![t] = IF @ = Either THEN Either ELSE 1 - @], c)
              [] o.name \in {"h", "ry"} ->
                   AerRegisters(circ, i + 1, [q EXCEPT ![t] = Either], c)
              [] o.name = "measure" ->
                   UNION {AerRegisters(circ, i + 1, [q EXCEPT ![t] = v],
                                       [c EXCEPT ![o.clbit] = v]) :
                            v \in (IF q[t] = Either THEN {0, 1} ELSE {q[t]})}
              [] OTHER -> AerRegisters(circ, i + 1, q, c)

\* next(iter(counts)): the register written from the highest classical bit down
AerBitstrings(circ, L) ==
    {[i \in 1 .. L |-> StrOfBit(c[L - i])] :
        c \in AerRegisters(circ, 1, [p \in ModelQubits |-> 0], [d \in 0 .. L - 1 |-> 0])}

(***************************************************************************)
(* Pieces of QNOSBackend._execute.                                         *)
(***************************************************************************)
NoResult == <<"None">>

Cmd(type, args, by, resp) == [type |-> type, args |-> args, by |-> by, resp |-> resp]

FireCmd(s, duration, by, resp) == Cmd("FIRE_LASER", <<s[1], s[2], duration>>, by, resp)

RECURSIVE Ascending(_)
Ascending(S) ==
    IF S = {} THEN <<>>
    ELSE LET m == CHOOSE x \in S : \A y \in S : x <= y
         IN <<m>> \o Ascending(S \ {m})

Range(f) == {f[i] : i \in DOMAIN f}

\* an active set that takes the qubits of measure operations as well
ActiveQubitsWithMeasure(circ) ==
    UNION {Range(circ[i].qubits) : i \in {j \in DOMAIN circ : circ[j].name # "barrier"}}

\* step 3: the qubits of every operation that is neither measure nor barrier
ActiveQubits(circ) ==
    UNION {Range(circ[i].qubits) : i \in {j \in DOMAIN circ :
                                          circ[j].name \notin {"measure", "barrier"}}}

\* step 5: the pulse (qubit, second qubit, freq, amp, duration, phase) sent for an
\* operation, or <<>> for an operation without a branch
PulseFor(op) ==
    CASE op.name = "h"  -> <<op.qubits[1], None, Carrier, AmpFull, PulseLongNs, 0>>
      [] op.name = "rz" -> <<op.qubits[1], None, Carrier, AmpHalf, PulseShortNs, op.param>>
      [] op.name = "ry" -> <<op.qubits[1], None, Carrier, AmpHalf, PulseShortNs, op.param>>
      [] op.name = "cp" -> <<op.qubits[1], op.qubits[2], Carrier, AmpHalf, PulseShortNs,
                             op.param>>
      [] op.name = "x"  -> <<op.qubits[1], None, Carrier, AmpFull, PulseShortNs, Pi>>
      [] OTHER -> <<>>

\* MicrowaveController.apply_pulse: 1.0 <= freq_ghz <= 4.4 and 0.0 <= amp <= 1.0
\* (25 * freq is the frequency in tenths)
PulseInRange(pulse) ==
    /\ 10 <= 25 * pulse[3] /\ 25 * pulse[3] <= 44
    /\ 0 <= pulse[4] /\ pulse[4] <= 10

\* step 6: entry c is the qubit of the last measure operation writing clbit c
RECURSIVE MeasuredMapFrom(_, _, _)
MeasuredMapFrom(circ, i, mm) ==
    IF i > Len(circ) THEN mm
    ELSE MeasuredMapFrom(circ, i + 1,
            IF circ[i].name = "measure"
            THEN [mm EXCEPT ![circ[i].clbit + 1] = circ[i].qubits[1]]
            ELSE mm)

\* a measurement map in which the first measure writing a classical bit wins
BuildMeasuredMapFirst(circ, L) ==
    [c \in 1 .. L |->
       LET writers == {i \in DOMAIN circ : circ[i].name = "measure" /\ circ[i].clbit = c - 1}
       IN IF writers = {} THEN None
          ELSE circ[CHOOSE i \in writers : \A j \in writers : i <= j].qubits[1]]

BuildMeasuredMap(circ, L) == MeasuredMapFrom(circ, 1, [c \in 1 .. L |-> None])

\* step 7: str_idx = (num_clbits - 1) - cl_idx
StrIdx(L, cl_idx) == (L - 1) - cl_idx

\* step 7: the drive fires the site of cl_idx
VizFires(mm, B, L, cl_idx) ==
    /\ mm[cl_idx + 1] # None
    /\ StrIdx(L, cl_idx) < Len(B)
    /\ B[StrIdx(L, cl_idx) + 1] = "1"

\* an assembly whose default for an unmapped classical bit is not "0"
BitValDefaultOne(mm, st, cl_idx) ==
    LET phys_q == mm[cl_idx + 1]
    IN IF phys_q # None /\ phys_q < MaxQubits THEN StrOfBit(st[phys_q]) ELSE "1"

\* step 9: one character of the final bitstring
BitVal(mm, st, cl_idx) ==
    LET phys_q == mm[cl_idx + 1]
    IN IF phys_q # None /\ phys_q < MaxQubits THEN StrOfBit(st[phys_q]) ELSE "0"

\* step 9: cl_idx runs from num_clbits - 1 down to 0
AssembleBitstring(mm, st, L) == [i \in 1 .. L |-> BitVal(mm, st, L - i)]

InitStates == [i \in 0 .. MaxQubits - 1 |-> 0]

RunVarsInit ==
    /\ bitstring_sim = <<>>
    /\ oracle_failed = FALSE
    /\ gate_idx = 1
    /\ measured_map = <<>>
    /\ viz_idx = 0
    /\ viz_fired = {}
    /\ background_image = {}
    /\ image = {}
    /\ states = InitStates
    /\ final_bitstring = <<>>
    /\ cmds = <<>>

RunVarsReset ==
    /\ bitstring_sim' = <<>>
    /\ oracle_failed' = FALSE
    /\ gate_idx' = 1
    /\ measured_map' = <<>>
    /\ viz_idx' = 0
    /\ viz_fired' = {}
    /\ background_image' = {}
    /\ image' = {}
    /\ states' = InitStates
    /\ final_bitstring' = <<>>
    /\ cmds' = <<>>

Quiescent == pc \in {"idle", "returned", "raised"} /\ cal_pc = "idle"

\* a result() that marks the job DONE before _execute has returned
RaiseMarksDone(kind) ==
    /\ pc' = "raised"
    /\ ret' = [op |-> "result", val |-> <<"EXC", kind>>, cached |-> FALSE]
    /\ job_status' = "DONE"
    /\ UNCHANGED <<job_result, circuit, num_clbits, exec_starts, exec_done, cancelled>>

\* an exception leaves _execute and result(): the job is left as it was
Raise(kind) ==
    /\ pc' = "raised"
    /\ ret' = [op |-> "result", val |-> <<"EXC", kind>>, cached |-> FALSE]
    /\ UNCHANGED jobVars

(***************************************************************************)
(* HardwareJob and QNOSBackend.run.                                        *)
(***************************************************************************)
\* run() creates the job.  A job that is never asked for its result leaves no
\* trace, so run() is taken at the start and after a result() call.
Run(L, circ) ==
    /\ Quiescent
    /\ job_status = "NONE" \/ pc \in {"returned", "raised"}
    /\ job_status' = "QUEUED"
    /\ job_result' = NoResult
    /\ circuit' = circ
    /\ num_clbits' = L
    /\ exec_starts' = 0
    /\ exec_done' = 0
    /\ cancelled' = FALSE
    /\ RunVarsReset
    /\ pc' = "idle"
    /\ ret' = [op |-> "run", val |-> <<"job">>, cached |-> FALSE]
    /\ UNCHANGED <<extVars, call, results, cfgVars, devVars, calVars>>

Submit ==
    /\ Quiescent
    /\ job_status # "NONE"
    /\ job_status' = "RUNNING"
    /\ ret' = [op |-> "submit", val |-> <<"None">>, cached |-> FALSE]
    /\ UNCHANGED <<job_result, circuit, num_clbits, exec_starts, exec_done, cancelled>>
    /\ UNCHANGED <<extVars, call, results, cfgVars, devVars, runVars, calVars, pc>>

Status ==
    /\ Quiescent
    /\ job_status # "NONE"
    /\ ret' = [op |-> "status", val |-> <<job_status>>, cached |-> FALSE]
    /\ UNCHANGED <<extVars, call, results, cfgVars, devVars, jobVars, runVars, calVars, pc>>

\* a cancel() that marks the job cancelled and reports success
CancelJobMarks ==
    /\ job_status' = "CANCELLED"
    /\ job_result' = job_result
    /\ ret' = [op |-> "cancel", val |-> <<"True">>, cached |-> FALSE]

\* cancel() returns False
CancelJob ==
    /\ job_status' = job_status
    /\ job_result' = job_result
    /\ ret' = [op |-> "cancel", val |-> <<"False">>, cached |-> FALSE]

Cancel ==
    /\ Quiescent
    /\ job_status # "NONE"
    /\ CancelJob
    /\ cancelled' = TRUE
    /\ UNCHANGED <<circuit, num_clbits, exec_starts, exec_done>>
    /\ UNCHANGED <<extVars, call, results, cfgVars, devVars, runVars, calVars, pc>>

\* a result() that executes again although a result is cached
ResultCachedRerun ==
    /\ Quiescent
    /\ job_status # "NONE"
    /\ job_result # NoResult
    /\ exec_starts < MaxExec
    /\ exec_starts' = exec_starts + 1
    /\ RunVarsReset
    /\ pc' = "oracle"
    /\ ret' = [op |-> "result", val |-> <<"pending">>, cached |-> FALSE]
    /\ UNCHANGED <<job_status, job_result, circuit, num_clbits, exec_done, cancelled>>
    /\ UNCHANGED <<extVars, call, results, cfgVars, devVars, calVars>>

\* result() with a cached result
ResultCached ==
    /\ Quiescent
    /\ job_status # "NONE"
    /\ job_result # NoResult
    /\ ret' = [op |-> "result", val |-> job_result, cached |-> TRUE]
    /\ UNCHANGED <<extVars, call, results, cfgVars, devVars, jobVars, runVars, calVars, pc>>

\* result() without one: _execute starts
ResultCall ==
    /\ Quiescent
    /\ job_status # "NONE"
    /\ job_result = NoResult
    /\ exec_starts < MaxExec
    /\ exec_starts' = exec_starts + 1
    /\ RunVarsReset
    /\ pc' = "oracle"
    /\ ret' = [op |-> "result", val |-> <<"pending">>, cached |-> FALSE]
    /\ UNCHANGED <<job_status, job_result, circuit, num_clbits, exec_done, cancelled>>
    /\ UNCHANGED <<extVars, call, results, cfgVars, devVars, calVars>>

(***************************************************************************)
(* QNOSBackend._execute, one action per step of the pipeline.              *)
(***************************************************************************)
\* an oracle step without the try/except: the exception of Aer leaves _execute
ExecOraclePropagates ==
    /\ pc = "oracle"
    /\ \E ok \in BOOLEAN :
         IF ok
         THEN /\ \E B \in AerBitstrings(circuit, num_clbits) : bitstring_sim' = B
              /\ oracle_failed' = FALSE
              /\ pc' = "reset"
              /\ UNCHANGED <<jobVars, ret>>
         ELSE /\ bitstring_sim' = <<>>
              /\ oracle_failed' = TRUE
              /\ Raise("Exception")
    /\ UNCHANGED <<gate_idx, measured_map, viz_idx, viz_fired, background_image, image,
                   states, final_bitstring, cmds>>
    /\ UNCHANGED <<extVars, call, results, cfgVars, devVars, calVars>>

\* step 2: the oracle returns a bitstring, or raises and zeros are used
ExecOracle ==
    /\ pc = "oracle"
    /\ \E ok \in BOOLEAN :
         \E B \in (IF ok THEN AerBitstrings(circuit, num_clbits)
                  ELSE {Zeros(num_clbits)}) :
            /\ bitstring_sim' = B
            /\ oracle_failed' = ~ok
    /\ pc' = "reset"
    /\ UNCHANGED <<gate_idx, measured_map, viz_idx, viz_fired, background_image, image,
                   states, final_bitstring, cmds>>
    /\ UNCHANGED <<extVars, call, results, cfgVars, devVars, jobVars, calVars, ret>>

\* the reset firings logged when the loop runs up to its n-th site; the last
\* one raised when failed
ResetCmds(order, n, failed) ==
    [i \in 1 .. n |-> FireCmd(QubitSite(order[i]), ResetDurationMs, "reset",
                              IF failed /\ i = n THEN "RAISE" ELSE "OK")]

RECURSIVE FireAllStates(_, _, _)
FireAllStates(ss, order, i) ==
    IF i > Len(order) THEN ss
    ELSE FireAllStates(SimFireStates(ss, QubitSite(order[i])), order, i + 1)

\* step 4: fire every active qubit, then clear the simulated device's active set
ExecReset ==
    /\ pc = "reset"
    /\ LET order == Ascending(ActiveQubits(circuit))
           fired == {QubitSite(order[i]) : i \in DOMAIN order}
       IN \E fail \in (IF link = "sim" THEN {0} ELSE 0 .. Len(order)) :
            IF fail > 0
            THEN /\ cmds' = cmds \o ResetCmds(order, fail, TRUE)
                 /\ Raise("ValueError")
                 /\ UNCHANGED devVars
            ELSE /\ cmds' = cmds \o ResetCmds(order, Len(order), FALSE)
                 /\ IF link = "sim"
                    THEN /\ active_lasers' =
                              (IF use_mock_hardware THEN {}
                               ELSE active_lasers \cup (fired \ dead_sites))
                         /\ sim_states' = FireAllStates(sim_states, order, 1)
                         /\ pc' = "gates"
                         /\ UNCHANGED <<jobVars, ret>>
                    ELSE /\ UNCHANGED devVars
                         /\ IF use_mock_hardware
                            THEN Raise("AttributeError")
                            ELSE pc' = "gates" /\ UNCHANGED <<jobVars, ret>>
    /\ UNCHANGED <<bitstring_sim, oracle_failed, gate_idx, measured_map, viz_idx,
                   viz_fired, background_image, image, states, final_bitstring>>
    /\ UNCHANGED <<extVars, call, results, cfgVars, calVars>>

PulseCmd(pulse, resp) == Cmd("APPLY_PULSE", pulse, "gate", resp)

\* a gate loop without the try/except: a raising pulse leaves _execute
ExecGateUncaught ==
    /\ pc = "gates"
    /\ gate_idx <= Len(circuit)
    /\ LET op == circuit[gate_idx]
           pulse == PulseFor(op)
       IN IF op.name = "barrier" \/ pulse = <<>>
          THEN /\ gate_idx' = gate_idx + 1
               /\ UNCHANGED <<cmds, devVars, jobVars, pc, ret>>
          ELSE IF link = "sim"
          THEN /\ cmds' = Append(cmds, PulseCmd(pulse, SimPulseResponse(pulse[3])))
               /\ gate_idx' = gate_idx + 1
               /\ UNCHANGED <<devVars, jobVars, pc, ret>>
          ELSE \E o \in LinkOutcomes :
                 /\ cmds' = Append(cmds, PulseCmd(pulse, o))
                 /\ UNCHANGED devVars
                 /\ IF o = "RAISE"
                    THEN Raise("ValueError") /\ UNCHANGED gate_idx
                    ELSE gate_idx' = gate_idx + 1 /\ UNCHANGED <<jobVars, pc, ret>>
    /\ UNCHANGED <<bitstring_sim, oracle_failed, measured_map, viz_idx, viz_fired,
                   background_image, image, states, final_bitstring>>
    /\ UNCHANGED <<extVars, call, results, cfgVars, calVars>>

\* step 5: one iteration of the gate loop; an exception of the pulse is caught
ExecGate ==
    /\ pc = "gates"
    /\ gate_idx <= Len(circuit)
    /\ LET op == circuit[gate_idx]
           pulse == PulseFor(op)
       IN IF op.name = "barrier" \/ pulse = <<>>
          THEN UNCHANGED <<cmds, devVars>>
          ELSE IF ~PulseInRange(pulse)
          THEN UNCHANGED <<cmds, devVars>>
          ELSE IF link = "sim"
          THEN \E flip \in (IF ~SimPulseRejected(pulse[3]) /\ pulse[2] = None
                               /\ pulse[6] # Pi /\ Abs(pulse[6]) > 0
                            THEN BOOLEAN ELSE {FALSE}) :
                 /\ sim_states' = SimPulseStates(sim_states, pulse[1], pulse[2],
                                                 pulse[3], pulse[6], flip)
                 /\ cmds' = Append(cmds, PulseCmd(pulse, SimPulseResponse(pulse[3])))
                 /\ UNCHANGED active_lasers
          ELSE \E o \in LinkOutcomes :
                 /\ cmds' = Append(cmds, PulseCmd(pulse, o))
                 /\ UNCHANGED devVars
    /\ gate_idx' = gate_idx + 1
    /\ UNCHANGED <<bitstring_sim, oracle_failed, measured_map, viz_idx, viz_fired,
                   background_image, image, states, final_bitstring>>
    /\ UNCHANGED <<extVars, call, results, cfgVars, jobVars, calVars, pc, ret>>

\* a pipeline that goes from the measurement map straight to the drive
ExecMeasureMapNoDark ==
    /\ pc = "gates"
    /\ gate_idx > Len(circuit)
    /\ measured_map' = BuildMeasuredMap(circuit, num_clbits)
    /\ pc' = "viz"
    /\ UNCHANGED <<bitstring_sim, oracle_failed, gate_idx, viz_idx, viz_fired,
                   background_image, image, states, final_bitstring, cmds>>
    /\ UNCHANGED <<extVars, call, results, cfgVars, devVars, jobVars, calVars, ret>>

\* step 6: the measurement map
ExecMeasureMap ==
    /\ pc = "gates"
    /\ gate_idx > Len(circuit)
    /\ measured_map' = BuildMeasuredMap(circuit, num_clbits)
    /\ pc' = "dark"
    /\ UNCHANGED <<bitstring_sim, oracle_failed, gate_idx, viz_idx, viz_fired,
                   background_image, image, states, final_bitstring, cmds>>
    /\ UNCHANGED <<extVars, call, results, cfgVars, devVars, jobVars, calVars, ret>>

\* a background capture that leaves the device's active set as it was
ExecCaptureBackgroundKeep ==
    /\ pc = "dark"
    /\ cmds' = Append(cmds, Cmd("CAPTURE_DARK", <<>>, "dark", "OK"))
    /\ background_image' = {}
    /\ pc' = "viz"
    /\ UNCHANGED <<bitstring_sim, oracle_failed, gate_idx, measured_map, viz_idx,
                   viz_fired, image, states, final_bitstring>>
    /\ UNCHANGED <<extVars, call, results, cfgVars, devVars, jobVars, calVars, ret>>

\* step 7, first line: capture_background = CAPTURE_DARK, then receive_image
ExecCaptureBackground ==
    /\ pc = "dark"
    /\ \E o \in LinkOutcomes :
         IF o = "RAISE"
         THEN /\ cmds' = Append(cmds, Cmd("CAPTURE_DARK", <<>>, "dark", "RAISE"))
              /\ Raise("ValueError")
              /\ UNCHANGED <<devVars, background_image>>
         ELSE /\ cmds' = Append(cmds, Cmd("CAPTURE_DARK", <<>>, "dark", "OK"))
              /\ \E frame \in FramesOf(SimDarkActive(active_lasers)) :
                    background_image' = frame
              /\ IF link = "sim"
                 THEN /\ active_lasers' = SimReceiveActive(SimDarkActive(active_lasers))
                      /\ sim_states' = SimDarkStates(sim_states)
                 ELSE UNCHANGED devVars
              /\ pc' = "viz"
              /\ UNCHANGED <<jobVars, ret>>
    /\ UNCHANGED <<bitstring_sim, oracle_failed, gate_idx, measured_map, viz_idx,
                   viz_fired, image, states, final_bitstring>>
    /\ UNCHANGED <<extVars, call, results, cfgVars, calVars>>

\* step 7, the loop: one iteration of the visualization drive
ExecViz ==
    /\ pc = "viz"
    /\ viz_idx < num_clbits
    /\ IF VizFires(measured_map, bitstring_sim, num_clbits, viz_idx)
       THEN LET site == QubitSite(measured_map[viz_idx + 1])
            IN \E o \in LinkOutcomes :
                 /\ cmds' = Append(cmds, FireCmd(site, ResetDurationMs, "viz", o))
                 /\ IF o = "RAISE"
                    THEN /\ Raise("ValueError")
                         /\ UNCHANGED <<devVars, viz_idx, viz_fired>>
                    ELSE /\ viz_fired' = viz_fired \cup {viz_idx}
                         /\ viz_idx' = viz_idx + 1
                         /\ IF link = "sim"
                            THEN /\ active_lasers' =
                                      SimFireActive(active_lasers, dead_sites, site)
                                 /\ sim_states' = SimFireStates(sim_states, site)
                            ELSE UNCHANGED devVars
                         /\ UNCHANGED <<jobVars, pc, ret>>
       ELSE /\ viz_idx' = viz_idx + 1
            /\ UNCHANGED <<cmds, devVars, viz_fired, jobVars, pc, ret>>
    /\ UNCHANGED <<bitstring_sim, oracle_failed, gate_idx, measured_map,
                   background_image, image, states, final_bitstring>>
    /\ UNCHANGED <<extVars, call, results, cfgVars, calVars>>

\* step 8, first line: camera.capture_image = CAPTURE_FRAME, then receive_image
ExecCaptureReadout ==
    /\ pc = "viz"
    /\ viz_idx = num_clbits
    /\ \E o \in LinkOutcomes :
         IF o = "RAISE"
         THEN /\ cmds' = Append(cmds, Cmd("CAPTURE_FRAME", <<>>, "frame", "RAISE"))
              /\ Raise("ValueError")
              /\ UNCHANGED <<devVars, image>>
         ELSE /\ cmds' = Append(cmds, Cmd("CAPTURE_FRAME", <<>>, "frame", "OK"))
              /\ \E frame \in FramesOf(active_lasers) : image' = frame
              /\ IF link = "sim"
                 THEN /\ active_lasers' = SimReceiveActive(active_lasers)
                      /\ UNCHANGED sim_states
                 ELSE UNCHANGED devVars
              /\ pc' = "decode"
              /\ UNCHANGED <<jobVars, ret>>
    /\ UNCHANGED <<bitstring_sim, oracle_failed, gate_idx, measured_map, viz_idx,
                   viz_fired, background_image, states, final_bitstring>>
    /\ UNCHANGED <<extVars, call, results, cfgVars, calVars>>

\* a decode step that consumes the mapping entries it reads
ExecDecodeConsumes ==
    /\ pc = "decode"
    /\ states' = process_image(image, mapping, MaxQubits, background_image, Thresh)
    /\ mapping' = EmptyFn
    /\ pc' = "assemble"
    /\ UNCHANGED <<bitstring_sim, oracle_failed, gate_idx, measured_map, viz_idx,
                   viz_fired, background_image, image, final_bitstring, cmds>>
    /\ UNCHANGED <<extVars, call, results, link, use_mock_hardware, dead_sites, devVars,
                   jobVars, calVars, ret>>

\* step 8, second line: decode the readout frame
ExecDecode ==
    /\ pc = "decode"
    /\ states' = process_image(image, mapping, MaxQubits, background_image, Thresh)
    /\ pc' = "assemble"
    /\ UNCHANGED <<bitstring_sim, oracle_failed, gate_idx, measured_map, viz_idx,
                   viz_fired, background_image, image, final_bitstring, cmds>>
    /\ UNCHANGED <<extVars, call, results, cfgVars, devVars, jobVars, calVars, ret>>

\* test_scimind4.py, results.append(bitstring): the list of the trials run on
\* the simulated device, with the circuit and the oracle string of each; the
\* first MaxTrials trials are kept
Trials(rs, lk, circ, oracle, bitstring) ==
    IF lk = "sim" /\ Len(rs) < MaxTrials
    THEN Append(rs, [circuit |-> circ, oracle |-> oracle, bitstring |-> bitstring])
    ELSE rs

\* step 9 and the return into result(): the job caches the result and is DONE
ExecAssemble ==
    /\ pc = "assemble"
    /\ final_bitstring' = AssembleBitstring(measured_map, states, num_clbits)
    /\ job_result' = final_bitstring'
    /\ job_status' = "DONE"
    /\ exec_done' = exec_done + 1
    /\ ret' = [op |-> "result", val |-> final_bitstring', cached |-> FALSE]
    /\ pc' = "returned"
    /\ results' = Trials(results, link, circuit, bitstring_sim, final_bitstring')
    /\ UNCHANGED <<circuit, num_clbits, exec_starts, cancelled>>
    /\ UNCHANGED <<bitstring_sim, oracle_failed, gate_idx, measured_map, viz_idx,
                   viz_fired, background_image, image, states, cmds>>
    /\ UNCHANGED <<extVars, call, cfgVars, devVars, calVars>>

(***************************************************************************)
(* LaserArrayController.fire_laser called directly.                        *)
(***************************************************************************)
FireInputs == {<<0, 0>>, <<GridWidth, 0>>}

\* positions on both sides of each edge of the 8 x 8 array
FirePositions == {<<0, 0>>, <<GridWidth - 1, GridWidth - 1>>, <<0, GridWidth - 1>>,
                  <<GridWidth, 0>>, <<0, GridWidth>>, <<-1, 0>>, <<0, -1>>}

\* duration_ms: the default and the one _execute passes
FireDurations == {DefaultDurationMs, ResetDurationMs}

\* if not (0 <= row < 8 and 0 <= col < 8)
ValidPosition(s) == 0 <= s[1] /\ s[1] < GridWidth /\ 0 <= s[2] /\ s[2] < GridWidth

\* a fire_laser without the position check: the command is sent for any
\* position, and the device takes the site as active
FireLaserUnchecked(s, d) ==
    /\ Quiescent
    /\ pc = "idle"
    /\ link = "sim"
    /\ active_lasers' = SimFireActive(active_lasers, dead_sites, s)
    /\ IF ValidPosition(s) THEN sim_states' = SimFireStates(sim_states, s)
                           ELSE UNCHANGED sim_states
    /\ ret' = [op |-> "fire_laser", val |-> <<SimResponses.FIRE_LASER>>, cached |-> FALSE,
               pos |-> s, duration |-> d,
               sent |-> <<FireCmd(s, d, "direct", SimResponses.FIRE_LASER)>>]
    /\ UNCHANGED <<extVars, call, results, cfgVars, jobVars, runVars, calVars, pc>>

\* fire_laser(row, col, duration_ms); ret.sent is what went over the link
FireLaser(s, d) ==
    /\ Quiescent
    /\ pc = "idle"
    /\ link = "sim"
    /\ IF ValidPosition(s)
       THEN /\ active_lasers' = SimFireActive(active_lasers, dead_sites, s)
            /\ sim_states' = SimFireStates(sim_states, s)
            /\ ret' = [op |-> "fire_laser", val |-> <<SimResponses.FIRE_LASER>>,
                         cached |-> FALSE, pos |-> s, duration |-> d,
                         sent |-> <<FireCmd(s, d, "direct", SimResponses.FIRE_LASER)>>]
       ELSE /\ UNCHANGED devVars
            /\ ret' = [op |-> "fire_laser", val |-> <<"EXC", "ValueError">>,
                         cached |-> FALSE, pos |-> s, duration |-> d, sent |-> <<>>]
    /\ UNCHANGED <<extVars, call, results, cfgVars, jobVars, runVars, calVars, pc>>

(***************************************************************************)
(* CalibrationManager on the simulated device.  A frame is the set of lit  *)
(* sites; the spots of distinct sites do not touch, so the contours of a   *)
(* thresholded frame are its lit sites, all of one area, and the centroid  *)
(* of a contour is the centre of its spot.                                 *)
(***************************************************************************)
\* perform_calibration(min_area=100, thresh=50)
PerformMinArea == 100
PerformThresh == 50
\* auto_calibrate: max(30, ...), the fixed threshold 50, contourArea > 50
AutoFloorThresh == 30
AutoFixedThresh == 50
AutoMinArea == 50
\* validate_calibration: spacing checked from 4 entries on, spread below 100
SpreadMinEntries == 4
SpreadMin == 100

NoReport ==
    [valid |-> FALSE, error |-> "none", coverage |-> None, missing |-> None,
     duplicates |-> FALSE, clustered |-> FALSE, site_count |-> None]

NoResults == [found |-> 0, missing |-> <<>>, positions |-> EmptyFn, total |-> None,
              success_rate |-> None]

\* the grids a sweep is asked to cover
GridSizes == (1 .. MaxGrid) \X (1 .. MaxGrid)

Expected(gs) == gs[1] * gs[2]

\* for row in range(grid_size[0]): for col in range(grid_size[1])
SweepSite(gs, i) == <<i \div gs[2], i % gs[2]>>

GridSites(gs) == {SweepSite(gs, i) : i \in 0 .. Expected(gs) - 1}

\* cv2.threshold(img, thresh_val, 255, THRESH_BINARY) then findContours
Contours(img, thresh_val) == IF White > thresh_val THEN img ELSE {}

\* cv2.absdiff of two frames
AbsDiff(img, background) == (img \ background) \cup (background \ img)

\* thresh_val = max(30, mean(diff) + 2 * std(diff)) lies below 255 exactly when
\* the lit share p of the difference image has p + 2 * sqrt(p * (1 - p)) < 1,
\* that is 5 * p < 1
AutoContours(diff, adaptive_thresh) ==
    IF adaptive_thresh
    THEN IF White > AutoFloorThresh /\ 5 * Cardinality(diff) * SpotArea < ImgPixels
         THEN diff ELSE {}
    ELSE Contours(diff, AutoFixedThresh)

\* CameraInterface.capture_image on the simulated device: the frame drawn
\* from the active set
CaptureFrame(al) == SimFrame(al)

\* perform_calibration: grid_size is set, the mapping is kept
StartPerform(gs) ==
    /\ Quiescent
    /\ link = "sim"
    /\ cal_runs < MaxSweeps
    /\ cal_runs' = cal_runs + 1
    /\ grid_size' = gs
    /\ cal_pc' = "perform"
    /\ cal_pos' = 0
    /\ cal_visited' = <<>>
    /\ ret' = [op |-> "perform_calibration", val |-> <<"pending">>, cached |-> FALSE]
    /\ UNCHANGED <<cal_mapping, cal_background, cal_results, cal_report>>
    /\ UNCHANGED <<extVars, call, results, cfgVars, devVars, jobVars, runVars, pc>>

\* one site of perform_calibration: fire, capture, threshold, first contour
\* whose area exceeds min_area
StepPerform ==
    /\ cal_pc = "perform"
    /\ cal_pos < Expected(grid_size)
    /\ LET site == SweepSite(grid_size, cal_pos)
           lit == SimFireActive(active_lasers, dead_sites, site)
           found == IF SpotArea > PerformMinArea
                    THEN Contours(CaptureFrame(lit), PerformThresh) ELSE {}
       IN /\ sim_states' = SimFireStates(sim_states, site)
          /\ active_lasers' = SimReceiveActive(lit)
          /\ cal_visited' = Append(cal_visited, site)
          /\ IF found = {}
             THEN cal_mapping' = cal_mapping
             ELSE \E first \in found : cal_mapping' = Put(cal_mapping, site, SpotCentre(first))
    /\ cal_pos' = cal_pos + 1
    /\ UNCHANGED <<grid_size, cal_pc, cal_background, cal_results, cal_report,
                   cal_runs>>
    /\ UNCHANGED <<extVars, call, results, cfgVars, jobVars, runVars, pc, ret>>

\* perform_calibration returns self.mapping
FinishPerform ==
    /\ cal_pc = "perform"
    /\ cal_pos = Expected(grid_size)
    /\ cal_pc' = "idle"
    /\ ret' = [op |-> "perform_calibration", val |-> <<"mapping">>, cached |-> FALSE]
    /\ UNCHANGED <<cal_mapping, grid_size, cal_pos, cal_background, cal_results,
                   cal_visited, cal_report, cal_runs>>
    /\ UNCHANGED <<extVars, call, results, cfgVars, devVars, jobVars, runVars, pc>>

\* auto_calibrate up to its loop: the mapping is emptied and the background
\* is one capture_image()
StartAuto(gs) ==
    /\ Quiescent
    /\ link = "sim"
    /\ cal_runs < MaxSweeps
    /\ cal_runs' = cal_runs + 1
    /\ grid_size' = gs
    /\ cal_mapping' = EmptyFn
    /\ cal_results' = NoResults
    /\ cal_background' = CaptureFrame(active_lasers)
    /\ active_lasers' = SimReceiveActive(active_lasers)
    /\ cal_pc' = "auto"
    /\ cal_pos' = 0
    /\ cal_visited' = <<>>
    /\ ret' = [op |-> "auto_calibrate", val |-> <<"pending">>, cached |-> FALSE]
    /\ UNCHANGED <<sim_states, cal_report>>
    /\ UNCHANGED <<extVars, call, results, cfgVars, jobVars, runVars, pc>>

\* one site of auto_calibrate: fire, capture, subtract the background,
\* threshold, largest contour whose area exceeds 50
StepAuto(adaptive_thresh) ==
    /\ cal_pc = "auto"
    /\ cal_pos < Expected(grid_size)
    /\ LET site == SweepSite(grid_size, cal_pos)
           lit == SimFireActive(active_lasers, dead_sites, site)
           diff == AbsDiff(CaptureFrame(lit), cal_background)
           found == IF SpotArea > AutoMinArea
                    THEN AutoContours(diff, adaptive_thresh) ELSE {}
       IN /\ sim_states' = SimFireStates(sim_states, site)
          /\ active_lasers' = SimReceiveActive(lit)
          /\ cal_visited' = Append(cal_visited, site)
          /\ IF found = {}
             THEN /\ cal_mapping' = cal_mapping
                  /\ cal_results' =
                        [cal_results EXCEPT !.missing = Append(@, site)]
             ELSE \E largest \in found :
                     /\ cal_mapping' = Put(cal_mapping, site, SpotCentre(largest))
                     /\ cal_results' =
                           [cal_results EXCEPT
                              !.positions = Put(@, site, SpotCentre(largest)),
                              !.found = @ + 1]
    /\ cal_pos' = cal_pos + 1
    /\ UNCHANGED <<grid_size, cal_pc, cal_background, cal_report, cal_runs>>
    /\ UNCHANGED <<extVars, call, results, cfgVars, jobVars, runVars, pc, ret>>

\* auto_calibrate returns results with total and success_rate (in percent,
\* rounded down here)
FinishAuto ==
    /\ cal_pc = "auto"
    /\ cal_pos = Expected(grid_size)
    /\ cal_results' = [cal_results EXCEPT
                         !.total = Expected(grid_size),
                         !.success_rate = (cal_results.found * 100) \div Expected(grid_size)]
    /\ cal_pc' = "idle"
    /\ ret' = [op |-> "auto_calibrate", val |-> <<"results">>, cached |-> FALSE]
    /\ UNCHANGED <<cal_mapping, grid_size, cal_pos, cal_background, cal_visited,
                   cal_report, cal_runs>>
    /\ UNCHANGED <<extVars, call, results, cfgVars, devVars, jobVars, runVars, pc>>

\* validate_calibration as a function of the mapping and the grid size;
\* coverage in percent, rounded down
ValidateCalibration(map, gs) ==
    IF DOMAIN map = {}
    THEN [NoReport EXCEPT !.error = "No calibration data"]
    ELSE LET n == Cardinality(DOMAIN map)
             positions == {map[k] : k \in DOMAIN map}
             xs == {q[1] : q \in positions}
             ys == {q[2] : q \in positions}
             spread(vs) == (CHOOSE hi \in vs : \A v \in vs : v <= hi)
                           - (CHOOSE lo \in vs : \A v \in vs : lo <= v)
             missing == IF n < Expected(gs) THEN Expected(gs) - n ELSE 0
             duplicates == Cardinality(positions) # n
             clustered == /\ n >= SpreadMinEntries
                          /\ (spread(xs) < SpreadMin \/ spread(ys) < SpreadMin)
         IN [valid |-> missing = 0 /\ ~duplicates /\ ~clustered,
             error |-> "none",
             coverage |-> (n * 100) \div Expected(gs),
             missing |-> missing,
             duplicates |-> duplicates,
             clustered |-> clustered,
             site_count |-> n]

Validate ==
    /\ Quiescent
    /\ cal_report' = ValidateCalibration(cal_mapping, grid_size)
    /\ ret' = [op |-> "validate_calibration", val |-> <<"report">>, cached |-> FALSE]
    /\ UNCHANGED <<cal_mapping, grid_size, cal_pc, cal_pos, cal_background,
                   cal_results, cal_visited, cal_runs>>
    /\ UNCHANGED <<extVars, call, results, cfgVars, devVars, jobVars, runVars, pc>>

\* no method has been called directly yet
NoCall == [fn |-> "none"]

\* neither the file nor the database holds a calibration document
NoDoc == [grid_size |-> <<>>, mapping |-> EmptyFn, of |-> EmptyFn, exists |-> FALSE]

NoStore == [file |-> NoDoc, db |-> NoDoc]

\* no CLI command is in progress
NoSession == [cmd |-> "none", at |-> "none", mock |-> FALSE, opened |-> 0, closed |-> 0,
              error |-> "none"]

(***************************************************************************)
(* Methods called directly, outside a run.                                 *)
(***************************************************************************)
\* the frames handed to process_image: nothing lit, one site, two sites,
\* every site
DecodeFrames == {{}, {<<2, 3>>}, {<<0, 0>>, <<2, 3>>}, AllSites}

\* num_qubits: one qubit (calibrate_mw.py), up to site (2, 3), the default,
\* one past the grid
DecodeSizes == {1, 2 * GridWidth + 4, MaxQubits, MaxQubits + 1}

\* mappings handed to process_image: the full one, one without site (2, 3),
\* the empty one, one whose ROI for (0, 0) lies half over the spot, and one
\* whose ROI for (0, 0) lies outside the image
DecodeMappings ==
    { FullMapping,
      [s \in AllSites \ {<<2, 3>>} |-> SpotCentre(s)],
      EmptyFn,
      [s \in AllSites \ {<<2, 3>>} |->
          IF s = <<0, 0>> THEN <<SpotOffsetX + SpotRadius, SpotOffsetY>> ELSE SpotCentre(s)],
      [s \in AllSites \ {<<2, 3>>} |->
          IF s = <<0, 0>> THEN <<0 - ImgWidth, 0 - ImgHeight>> ELSE SpotCentre(s)] }

\* thresh of the processor: the default, and zero (the mean of a dark
\* background frame)
DecodeThresh == {Thresh, 0}

\* QubitImageProcessor(thresh=t).process_image(image, mapping, num_qubits=n,
\* background_image=bg)
ProcessImage(img, n, bg, t) ==
    /\ call = NoCall
    /\ Quiescent
    /\ pc = "idle"
    /\ image' = img
    /\ background_image' = bg
    /\ states' = process_image(img, mapping, n, bg, t)
    /\ call' = [fn |-> "process_image", num_qubits |-> n, thresh |-> t]
    /\ ret' = [op |-> "process_image", val |-> <<"states">>, cached |-> FALSE]
    /\ UNCHANGED <<bitstring_sim, oracle_failed, gate_idx, measured_map, viz_idx,
                   viz_fired, final_bitstring, cmds>>
    /\ UNCHANGED <<extVars, results, cfgVars, devVars, jobVars, calVars, pc>>

(***************************************************************************)
(* Persistence of the mapping: JSON file and database document.            *)
(***************************************************************************)
DigitChars == <<"0", "1", "2", "3", "4", "5", "6", "7", "8", "9">>

\* str(n) of a natural number, as a sequence of characters
RECURSIVE NatStr(_)
NatStr(n) ==
    IF n < 10 THEN <<DigitChars[n + 1]>>
    ELSE NatStr(n \div 10) \o <<DigitChars[(n % 10) + 1]>>

\* the text an f-string gives for an integer
IntStr(n) == IF n < 0 THEN <<"-">> \o NatStr(0 - n) ELSE NatStr(n)

\* a key written column first
KeyStrSwapped(k) == IntStr(k[2]) \o <<"_">> \o IntStr(k[1])

\* f"{k[0]}_{k[1]}"
KeyStr(k) == IntStr(k[1]) \o <<"_">> \o IntStr(k[2])

IsDigits(s) == Len(s) > 0 /\ \A i \in DOMAIN s : \E d \in DOMAIN DigitChars : DigitChars[d] = s[i]

RECURSIVE NatVal(_)
NatVal(s) ==
    IF Len(s) = 0 THEN 0
    ELSE 10 * NatVal(SubSeq(s, 1, Len(s) - 1))
         + ((CHOOSE d \in DOMAIN DigitChars : DigitChars[d] = s[Len(s)]) - 1)

\* int(s): the value, or not ok where int() raises ValueError
ParseInt(s) ==
    IF IsDigits(s) THEN [ok |-> TRUE, val |-> NatVal(s)]
    ELSE IF Len(s) > 1 /\ s[1] = "-" /\ IsDigits(Tail(s))
         THEN [ok |-> TRUE, val |-> 0 - NatVal(Tail(s))]
         ELSE [ok |-> FALSE, val |-> 0]

\* row, col = map(int, k.split('_')): exactly two parts, both integers
ParseKey(k) ==
    LET seps == {i \in DOMAIN k : k[i] = "_"}
    IN IF Cardinality(seps) # 1 THEN [ok |-> FALSE, key |-> <<0, 0>>]
       ELSE LET i == CHOOSE j \in seps : TRUE
                row == ParseInt(SubSeq(k, 1, i - 1))
                col == ParseInt(SubSeq(k, i + 1, Len(k)))
            IN [ok |-> row.ok /\ col.ok, key |-> <<row.val, col.val>>]

\* {f"{k[0]}_{k[1]}": list(v) for k, v in mapping.items()}
EncodeMapping(m) ==
    [ks \in {KeyStr(k) : k \in DOMAIN m} |->
        [list |-> m[CHOOSE k \in DOMAIN m : KeyStr(k) = ks]]]

\* the keys of a document that split and parse
GoodKeys(d) == {ks \in DOMAIN d : ParseKey(ks).ok}

\* mapping[(row, col)] = tuple(v) for the keys in ks
DecodeMapping(d, ks) ==
    [k \in {ParseKey(x).key : x \in ks} |->
        d[CHOOSE x \in ks : ParseKey(x).key = k].list]

\* the mappings a manager is given: none, one site, two sites, keys of two
\* digits that read alike without the separator, and the full grid
StoreMappings ==
    { EmptyFn,
      [s \in {<<0, 0>>} |-> SpotCentre(s)],
      [s \in {<<0, 0>>, <<1, 2>>} |-> SpotCentre(s)],
      [s \in {<<1, 12>>, <<11, 2>>} |-> <<s[1], s[2]>>],
      FullMapping }

\* cal.mapping = {...}
AssignMapping(m) ==
    /\ Quiescent
    /\ cal_mapping' = m
    /\ ret' = [op |-> "assign_mapping", val |-> <<"None">>, cached |-> FALSE]
    /\ UNCHANGED <<grid_size, cal_pc, cal_pos, cal_background, cal_results, cal_visited,
                   cal_report, cal_runs>>
    /\ UNCHANGED <<stored, cli, call, results, cfgVars, devVars, jobVars, runVars, pc>>

\* save_mapping_file (kind "file", grid_size written too) and
\* MongoDBClient.save_mapping (kind "db", the mapping field is replaced)
SaveMapping(kind) ==
    /\ Quiescent
    /\ stored' = [stored EXCEPT ![kind] =
                     [grid_size |-> IF kind = "file" THEN grid_size ELSE <<>>,
                      mapping |-> EncodeMapping(cal_mapping),
                      of |-> cal_mapping,
                      exists |-> TRUE]]
    /\ ret' = [op |-> "save_mapping", val |-> <<kind>>, cached |-> FALSE]
    /\ UNCHANGED <<cli, call, results, cfgVars, devVars, jobVars, runVars, calVars, pc>>

\* load_mapping_file and load_mapping: a missing document raises; a key that
\* does not parse raises with the entries read so far left in the mapping
LoadMapping(kind) ==
    /\ Quiescent
    /\ LET doc == stored[kind]
       IN IF ~doc.exists
          THEN /\ ret' = [op |-> "load_mapping", val |-> <<kind, "FileNotFoundError">>,
                          cached |-> FALSE]
               /\ UNCHANGED <<cal_mapping, grid_size>>
          ELSE /\ grid_size' = IF kind = "file" THEN doc.grid_size ELSE grid_size
               /\ IF GoodKeys(doc.mapping) = DOMAIN doc.mapping
                  THEN /\ cal_mapping' = DecodeMapping(doc.mapping, DOMAIN doc.mapping)
                       /\ ret' = [op |-> "load_mapping", val |-> <<kind, "None">>,
                                  cached |-> FALSE]
                  ELSE /\ \E ks \in SUBSET GoodKeys(doc.mapping) :
                             cal_mapping' = IF kind = "file"
                                            THEN DecodeMapping(doc.mapping, ks)
                                            ELSE cal_mapping
                       /\ ret' = [op |-> "load_mapping", val |-> <<kind, "ValueError">>,
                                  cached |-> FALSE]
    /\ UNCHANGED <<cal_pc, cal_pos, cal_background, cal_results, cal_visited,
                   cal_report, cal_runs>>
    /\ UNCHANGED <<stored, cli, call, results, cfgVars, devVars, jobVars, runVars, pc>>

(***************************************************************************)
(* CLI commands (lib/commands.py): open the link, body, finally.           *)
(***************************************************************************)
CliCommands == {"calibrate", "period", "math", "powmod", "shor", "modinv", "factor15"}

\* the command is invoked: nothing is opened yet
CliInvoke(cmd, mock) ==
    /\ Quiescent
    /\ cli.at \in {"none", "done"}
    /\ cli' = [cmd |-> cmd, at |-> "open", mock |-> mock, opened |-> 0, closed |-> 0,
               error |-> "none"]
    /\ UNCHANGED <<stored, call, results, cfgVars, devVars, jobVars, runVars, calVars, pc, ret>>

\* fpga = SimulatedFPGAConnection() if mock_hardware else FPGAConnection(port);
\* the serial port may fail to open, and then fpga is never bound
CliOpen ==
    /\ cli.at = "open"
    /\ \E ok \in (IF cli.mock THEN {TRUE} ELSE BOOLEAN) :
          cli' = IF ok
                 THEN [cli EXCEPT !.opened = 1,
                                  !.at = IF cli.cmd = "calibrate" THEN "sweep"
                                         ELSE IF cli.cmd = "factor15" /\ cli.mock THEN "assign"
                                         ELSE "load"]
                 ELSE [cli EXCEPT !.error = "SerialException", !.at = "finally"]
    /\ UNCHANGED <<stored, call, results, cfgVars, devVars, jobVars, runVars, calVars, pc, ret>>

\* calibrate: perform_calibration returns a mapping (the sweep itself is
\* StartPerform .. FinishPerform) or raises; then the mapping is saved
CliSweep ==
    /\ cli.at = "sweep"
    /\ \/ /\ \E m \in StoreMappings : cal_mapping' = m
          /\ cli' = [cli EXCEPT !.at = "save"]
       \/ /\ ~cli.mock
          /\ cli' = [cli EXCEPT !.error = "execution error", !.at = "finally"]
          /\ UNCHANGED cal_mapping
    /\ UNCHANGED <<grid_size, cal_pc, cal_pos, cal_background, cal_results, cal_visited,
                   cal_report, cal_runs>>
    /\ UNCHANGED <<stored, call, results, cfgVars, devVars, jobVars, runVars, pc, ret>>

\* calibrate: db = MongoDBClient(); cal.save_mapping(db); db.close()
CliSave ==
    /\ cli.at = "save"
    /\ \E ok \in BOOLEAN :
          IF ok
          THEN /\ stored' = [stored EXCEPT !.db =
                                [grid_size |-> <<>>, mapping |-> EncodeMapping(cal_mapping),
                                 of |-> cal_mapping, exists |-> TRUE]]
               /\ cli' = [cli EXCEPT !.at = "finally"]
          ELSE /\ cli' = [cli EXCEPT !.error = "execution error", !.at = "finally"]
               /\ UNCHANGED stored
    /\ UNCHANGED <<call, results, cfgVars, devVars, jobVars, runVars, calVars, pc, ret>>

\* factor15 with mock hardware: the synthetic mapping, no database
CliAssign ==
    /\ cli.at = "assign"
    /\ cal_mapping' = FullMapping
    /\ cli' = [cli EXCEPT !.at = "run"]
    /\ UNCHANGED <<grid_size, cal_pc, cal_pos, cal_background, cal_results, cal_visited,
                   cal_report, cal_runs>>
    /\ UNCHANGED <<stored, call, results, cfgVars, devVars, jobVars, runVars, pc, ret>>

\* cal.load_mapping(db); FileNotFoundError gives the synthetic mapping with
\* mock hardware (not in factor15) and ValueError otherwise
CliLoad ==
    /\ cli.at = "load"
    /\ LET next == IF cli.cmd = "factor15" THEN "run" ELSE "check"
       IN IF stored.db.exists
          THEN /\ cal_mapping' = DecodeMapping(stored.db.mapping, DOMAIN stored.db.mapping)
               /\ cli' = [cli EXCEPT !.at = next]
          ELSE IF cli.mock /\ cli.cmd # "factor15"
          THEN /\ cal_mapping' = FullMapping
               /\ cli' = [cli EXCEPT !.at = next]
          ELSE /\ cli' = [cli EXCEPT !.error = "mapping not found", !.at = "finally"]
               /\ UNCHANGED cal_mapping
    /\ UNCHANGED <<grid_size, cal_pc, cal_pos, cal_background, cal_results, cal_visited,
                   cal_report, cal_runs>>
    /\ UNCHANGED <<stored, call, results, cfgVars, devVars, jobVars, runVars, pc, ret>>

\* if len(cal.mapping) < 64: raise ValueError("Incomplete mapping; ...")
CliCheck ==
    /\ cli.at = "check"
    /\ cli' = IF Cardinality(DOMAIN cal_mapping) < MaxQubits
              THEN [cli EXCEPT !.error = "incomplete mapping", !.at = "finally"]
              ELSE [cli EXCEPT !.at = "run"]
    /\ UNCHANGED <<stored, call, results, cfgVars, devVars, jobVars, runVars, calVars, pc, ret>>

\* backend, circuit, job.result() and the printed table: returns or raises
CliRun ==
    /\ cli.at = "run"
    /\ \E ok \in BOOLEAN :
          cli' = IF ok THEN [cli EXCEPT !.at = "finally"]
                 ELSE [cli EXCEPT !.error = "execution error", !.at = "finally"]
    /\ UNCHANGED <<stored, call, results, cfgVars, devVars, jobVars, runVars, calVars, pc, ret>>

\* a finally block that closes the link without asking whether it was opened
CliFinallyAlways ==
    /\ cli.at = "finally"
    /\ cli' = [cli EXCEPT !.closed = cli.closed + 1, !.at = "done"]
    /\ UNCHANGED <<stored, call, results, cfgVars, devVars, jobVars, runVars, calVars, pc, ret>>

\* finally: if 'fpga' in locals(): fpga.close()
CliFinally ==
    /\ cli.at = "finally"
    /\ cli' = [cli EXCEPT !.closed = IF cli.opened > 0 THEN cli.closed + 1 ELSE cli.closed,
                          !.at = "done"]
    /\ UNCHANGED <<stored, call, results, cfgVars, devVars, jobVars, runVars, calVars, pc, ret>>

\* FPGAConnection.receive_image, one ser.read per step.  Time is counted in
\* ticks of 10 s: the window of the loop is 30 s, the read timeout of the port
\* is 60 s.  A request asks for min(1024, missing) bytes, here RecvRequest
\* units; a read returns as soon as the request is filled, or at its timeout
\* with the bytes that arrived (possibly none).
RecvWindow == 3

ReadTimeout == 6

RecvRequest == 2

StartReceive ==
    /\ Quiescent
    /\ link = "real"
    /\ IF call = NoCall THEN TRUE ELSE call.out # "reading"
    /\ call' = [fn |-> "receive_image", data |-> 0, elapsed |-> 0, out |-> "reading"]
    /\ UNCHANGED <<extVars, results, cfgVars, devVars, jobVars, runVars, calVars, pc, ret>>

ReadChunk ==
    /\ call # NoCall
    /\ call.out = "reading"
    /\ call.elapsed <= MaxClock
    /\ LET request == Min(RecvRequest, MaxFrameUnits - call.data)
       IN \E n \in 0 .. request :
          \E dt \in (IF n = request THEN 0 .. ReadTimeout ELSE {ReadTimeout}) :
             LET now == call.elapsed + dt
                 data == call.data + n
             IN call' = [call EXCEPT
                           !.elapsed = now,
                           !.data = IF n = 0 /\ now > RecvWindow THEN call.data ELSE data,
                           !.out = IF n = 0 /\ now > RecvWindow THEN "TimeoutError"
                                   ELSE IF data < MaxFrameUnits THEN "reading"
                                   ELSE IF data # MaxFrameUnits THEN "ValueError"
                                   ELSE "frame"]
    /\ UNCHANGED <<extVars, results, cfgVars, devVars, jobVars, runVars, calVars, pc, ret>>

(***************************************************************************)
(* Specifications.                                                         *)
(***************************************************************************)
Mappings ==
    { FullMapping,
      [s \in AllSites \ {QubitSite(0)} |-> SpotCentre(s)],
      EmptyFn }

CalVarsInit ==
    /\ cal_mapping = EmptyFn
    /\ grid_size = <<GridWidth, GridWidth>>
    /\ cal_pc = "idle"
    /\ cal_pos = 0
    /\ cal_background = {}
    /\ cal_results = NoResults
    /\ cal_visited = <<>>
    /\ cal_report = NoReport
    /\ cal_runs = 0

InitCommon ==
    /\ active_lasers = {}
    /\ sim_states = EmptyFn
    /\ job_status = "NONE"
    /\ job_result = NoResult
    /\ circuit = <<>>
    /\ num_clbits = 0
    /\ exec_starts = 0
    /\ exec_done = 0
    /\ cancelled = FALSE
    /\ RunVarsInit
    /\ CalVarsInit
    /\ pc = "idle"
    /\ ret = [op |-> "none", val |-> <<>>, cached |-> FALSE]
    /\ call = NoCall
    /\ results = <<>>
    /\ stored = NoStore
    /\ cli = NoSession

\* a backend on the simulated device
Init ==
    /\ link = "sim"
    /\ use_mock_hardware \in BOOLEAN
    /\ mapping \in Mappings
    /\ dead_sites = {}
    /\ InitCommon

ExecStep ==
    \/ ExecOracle
    \/ ExecReset
    \/ ExecGate
    \/ ExecMeasureMap
    \/ ExecCaptureBackground
    \/ ExecViz
    \/ ExecCaptureReadout
    \/ ExecDecode
    \/ ExecAssemble

\* run() on a backend that has run nothing yet
FirstRun ==
    /\ job_status = "NONE"
    /\ \E circ \in Circuits(MaxClbits) : Run(MaxClbits, circ)

\* the simulated device: one circuit is run, as in test_scimind4.py
\* (backend.run(qc), job.result()), and lasers may be fired directly before
\* run(), between run() and result(), and after
Next ==
    \/ FirstRun
    \/ ResultCached
    \/ ResultCall
    \/ ExecStep
    \/ \E s \in FireInputs : FireLaser(s, DefaultDurationMs)

Spec == Init /\ [][Next]_vars

\* the laser controller called directly on the simulated device
NextFire == \E s \in FirePositions, d \in FireDurations : FireLaser(s, d)

SpecFire == Init /\ [][NextFire]_vars

\* sites fired through the laser controller around the sweeps
CalFireInputs == {<<0, 0>>, <<0, MaxGrid - 1>>}

\* the sets of sites the device may fail to illuminate
DeadSets == {{}, {<<0, 0>>}, {<<0, 0>>, <<MaxGrid - 1, MaxGrid - 1>>}}

\* a calibration manager and a laser controller on one simulated device
InitCal ==
    /\ link = "sim"
    /\ use_mock_hardware = TRUE
    /\ mapping = FullMapping
    /\ dead_sites \in DeadSets
    /\ InitCommon

NextCal ==
    \/ \E s \in CalFireInputs : FireLaser(s, DefaultDurationMs)
    \/ \E gs \in GridSizes : StartPerform(gs)
    \/ StepPerform
    \/ FinishPerform
    \/ \E gs \in GridSizes : StartAuto(gs)
    \/ \E adaptive_thresh \in BOOLEAN : StepAuto(adaptive_thresh)
    \/ FinishAuto
    \/ Validate

SpecCal == InitCal /\ [][NextCal]_vars

\* a processor handed frames and mappings directly
InitDecode ==
    /\ link = "sim"
    /\ use_mock_hardware = TRUE
    /\ mapping \in DecodeMappings
    /\ dead_sites = {}
    /\ InitCommon

NextDecode ==
    \E img \in DecodeFrames, n \in DecodeSizes, bg \in DecodeFrames, t \in DecodeThresh :
        ProcessImage(img, n, bg, t)

SpecDecode == InitDecode /\ [][NextDecode]_vars

\* a manager, a JSON file and a database document
StoreKinds == {"file", "db"}

NextStore ==
    \/ \E m \in StoreMappings : AssignMapping(m)
    \/ \E kind \in StoreKinds : SaveMapping(kind)
    \/ \E kind \in StoreKinds : LoadMapping(kind)

SpecStore == InitCal /\ [][NextStore]_vars

\* CLI commands run one after another against one database
NextCli ==
    \/ \E cmd \in CliCommands, mock \in BOOLEAN : CliInvoke(cmd, mock)
    \/ CliOpen
    \/ CliSweep
    \/ CliSave
    \/ CliAssign
    \/ CliLoad
    \/ CliCheck
    \/ CliRun
    \/ CliFinally

SpecCli == InitCal /\ [][NextCli]_vars

\* a frame received over the serial link, under every pattern of byte arrival
InitRecv ==
    /\ link = "real"
    /\ use_mock_hardware = FALSE
    /\ mapping = FullMapping
    /\ dead_sites = {}
    /\ InitCommon

NextRecv == StartReceive \/ ReadChunk

SpecRecv == InitRecv /\ [][NextRecv]_vars

\* the job record under every order of its calls, on either link
JobCircuits ==
    { <<>>,
      <<Op("measure", <<0>>, 0, 0)>>,
      <<Op("x", <<0>>, None, 0), Op("measure", <<0>>, 0, 0)>>,
      <<Op("x", <<9>>, None, 0), Op("h", <<0>>, None, 0), Op("measure", <<0>>, 0, 0)>> }

InitJob ==
    /\ link \in {"sim", "real"}
    /\ use_mock_hardware \in (IF link = "sim" THEN BOOLEAN ELSE {FALSE})
    /\ mapping = FullMapping
    /\ dead_sites = {}
    /\ InitCommon

NextJob ==
    \/ \E circ \in JobCircuits : Run(1, circ)
    \/ Submit
    \/ Status
    \/ Cancel
    \/ ResultCached
    \/ ResultCall
    \/ ExecStep

SpecJob == InitJob /\ [][NextJob]_vars

(***************************************************************************)
(* Claims.                                                                 *)
(***************************************************************************)
Returned == pc = "returned"

Mapped(c) == measured_map[c + 1] # None

\* the oracle character of classical bit c
OracleBit(c) == bitstring_sim[(num_clbits - 1 - c) + 1]

IsBitstring(v) == Len(v) > 0 /\ \A i \in DOMAIN v : v[i] \in Bit

\* C1: on the simulated device with the full matching mapping, _execute returns
\* the oracle bitstring, whatever measurement map the measure operations
\* produce; stated here for the maps that cover every classical bit.
C1_RoundTrip ==
    (Returned /\ mapping = FullMapping /\ \A c \in 0 .. num_clbits - 1 : Mapped(c))
        => final_bitstring = bitstring_sim

\* the drive issued a firing of site s
DriveFired(s) ==
    \E k \in DOMAIN cmds : cmds[k] = FireCmd(s, ResetDurationMs, "viz", "OK")

\* C2: for every classical bit c mapped to a site s, the drive fires s exactly
\* when oracle_bitstring[L-1-c] is '1', and character L-1-c of the final
\* bitstring is the decoded state of s.
C2_BitOrdering ==
    Returned =>
        \A c \in 0 .. num_clbits - 1 :
            Mapped(c) =>
                /\ DriveFired(QubitSite(measured_map[c + 1])) <=> (OracleBit(c) = "1")
                /\ final_bitstring[(num_clbits - 1 - c) + 1] =
                       StrOfBit(states[measured_map[c + 1]])

\* C3: the final bitstring has exactly num_clbits characters, each '0' or '1',
\* for every mapping; a classical bit no measure maps, or whose site the
\* mapping does not hold, is '0'.
C3_OutputShape ==
    Returned =>
        /\ Len(final_bitstring) = num_clbits
        /\ \A i \in DOMAIN final_bitstring : final_bitstring[i] \in Bit
        /\ \A c \in 0 .. num_clbits - 1 :
              (~Mapped(c) \/ QubitSite(measured_map[c + 1]) \notin DOMAIN mapping)
                 => final_bitstring[(num_clbits - 1 - c) + 1] = "0"

C3_Witness ==
    /\ Returned
    /\ mapping # FullMapping /\ DOMAIN mapping # {}
    /\ \E c1, c2 \in 0 .. num_clbits - 1 :
          /\ ~Mapped(c1)
          /\ Mapped(c2) /\ OracleBit(c2) = "1"
          /\ QubitSite(measured_map[c2 + 1]) \notin DOMAIN mapping

MeasureOnly(circ) == SelectSeq(circ, LAMBDA o : o.name = "measure")

\* the bitstring fixed by the measure operations, the oracle string and the
\* mapping alone, on the simulated device
ResultOfMeasures(circ, B, map, L) ==
    LET mm == BuildMeasuredMap(MeasureOnly(circ), L)
        lit == {QubitSite(mm[c + 1]) :
                  c \in {d \in 0 .. L - 1 : mm[d + 1] # None /\ B[L - d] = "1"}}
        st == process_image(lit, map, MaxQubits, {}, Thresh)
    IN [i \in 1 .. L |-> IF mm[(L - i) + 1] = None THEN "0"
                         ELSE StrOfBit(st[mm[(L - i) + 1]])]

CmdIdx(type) == {k \in DOMAIN cmds : cmds[k].type = type}

\* C5: inside one _execute call the reset firings and the pulses come before
\* CAPTURE_DARK, CAPTURE_DARK before every visualization firing, every
\* visualization firing before CAPTURE_FRAME, and nothing after CAPTURE_FRAME.
C5_PhaseOrder ==
    LET darks == CmdIdx("CAPTURE_DARK")
        frames == CmdIdx("CAPTURE_FRAME")
    IN /\ Cardinality(darks) <= 1
       /\ Cardinality(frames) <= 1
       /\ \A k \in DOMAIN cmds :
             /\ cmds[k].by \in {"reset", "viz"} <=> cmds[k].type = "FIRE_LASER"
             /\ (cmds[k].type = "APPLY_PULSE" \/ cmds[k].by = "reset")
                   => \A d \in darks : k < d
             /\ cmds[k].by = "viz"
                   => /\ \E d \in darks : d < k
                      /\ \A f \in frames : k < f
       /\ \A f \in frames : f = Len(cmds) /\ \E d \in darks : d < f
       /\ pc \in {"viz"} => Cardinality(darks) = 1
       /\ pc \in {"decode", "assemble", "returned"}
             => /\ Cardinality(darks) = 1 /\ Cardinality(frames) = 1
                /\ Cardinality({k \in DOMAIN cmds : cmds[k].by = "reset"})
                      = Cardinality(ActiveQubits(circuit))
                /\ Cardinality({k \in DOMAIN cmds : cmds[k].by = "viz"})
                      = Cardinality(viz_fired)

C5_Witness ==
    /\ Returned
    /\ \E k \in DOMAIN cmds : cmds[k].by = "reset"
    /\ \E k \in DOMAIN cmds : cmds[k].type = "APPLY_PULSE"
    /\ \E k \in DOMAIN cmds : cmds[k].by = "viz"

StatusRank(st) ==
    CASE st = "NONE" -> 0
      [] st = "QUEUED" -> 1
      [] st = "RUNNING" -> 2
      [] st = "DONE" -> 3
      [] OTHER -> 4

\* C6: over any sequence of submit(), result(), cancel() and status() calls on
\* a job its status only moves forward along QUEUED -> RUNNING -> DONE, and
\* once DONE it stays DONE.
C6_StatusForward ==
    [][ret'.op # "run" => StatusRank(job_status') >= StatusRank(job_status)]_vars

\* C7 as stated: the backend executes the circuit exactly once for a job, on
\* the first result() call, and every result() call returns that result.
C7_ExecutesOnce ==
    /\ exec_starts <= 1
    /\ (ret.op = "result" /\ IsBitstring(ret.val)) => ret.val = job_result

\* C7 as amended: the backend completes the execution of the circuit at most
\* once for a job; the first result() call whose execution returns caches its
\* result, and from then on every result() call returns that same result and
\* nothing is executed again.
C7_CompletesOnce ==
    /\ [](/\ exec_done <= 1
          /\ (job_result # NoResult) <=> (exec_done = 1)
          /\ (job_result # NoResult /\ Quiescent) => job_result = final_bitstring
          /\ (ret.op = "result" /\ IsBitstring(ret.val)) => ret.val = job_result)
    /\ [][(job_result # NoResult /\ ret'.op # "run")
            => /\ exec_starts' = exec_starts
               /\ exec_done' = exec_done
               /\ job_result' = job_result
               /\ UNCHANGED <<devVars, cmds>>]_vars

C7_Witness ==
    /\ exec_starts = 2
    /\ exec_done = 1
    /\ ret.op = "result" /\ ret.cached
    /\ ret.val = job_result

\* C8: cancel() returns False in every job state and changes nothing, and a
\* cancelled job still runs to completion on the next result() request.
C8_CancelNoEffect ==
    /\ [][ret'.op = "cancel"
            => /\ ret'.val = <<"False">>
               /\ job_status' = job_status
               /\ job_result' = job_result
               /\ UNCHANGED <<circuit, num_clbits, exec_starts, exec_done>>
               /\ UNCHANGED <<extVars, call, results, cfgVars, devVars, runVars, calVars, pc>>]_vars
    /\ [](/\ (cancelled /\ Quiescent /\ job_result = NoResult /\ exec_starts < MaxExec)
                => ENABLED ResultCall
          /\ (cancelled /\ Returned)
                => job_status \in {"DONE", "RUNNING"} /\ job_result = final_bitstring)

C8_Witness ==
    /\ cancelled
    /\ Returned
    /\ job_status = "DONE"
    /\ exec_done = 1
    /\ ret.op = "result"

\* a calibration sweep has just returned
SweepReturned ==
    cal_pc = "idle" /\ ret.op \in {"perform_calibration", "auto_calibrate"} /\ ret.val # <<"pending">>

\* the sites of the swept grid the device fails to illuminate
DeadInGrid == GridSites(grid_size) \cap dead_sites

\* C9: on a fully responsive simulated device a sweep (perform_calibration or
\* auto_calibrate) over an R x C grid leaves a mapping with exactly R*C
\* entries, every site of the grid mapped to the pixel it illuminates, with
\* 100% coverage and no duplicate pixel coordinates.
C9_CalibrationComplete ==
    (SweepReturned /\ dead_sites = {}) =>
        LET report == ValidateCalibration(cal_mapping, grid_size)
        IN /\ Cardinality(DOMAIN cal_mapping) = Expected(grid_size)
           /\ DOMAIN cal_mapping = GridSites(grid_size)
           /\ \A site \in DOMAIN cal_mapping : cal_mapping[site] = SpotCentre(site)
           /\ report.coverage = 100
           /\ ~report.duplicates

\* C10: if the device fails to illuminate k sites of the R x C grid,
\* auto_calibrate visits every site in row-major order, leaves a mapping with
\* exactly R*C - k entries (the illuminated sites), and its report lists
\* exactly those k sites as missing.
C10_CalibrationFailSoft ==
    (SweepReturned /\ ret.op = "auto_calibrate") =>
        /\ cal_visited = [i \in 1 .. Expected(grid_size) |-> SweepSite(grid_size, i - 1)]
        /\ Cardinality(DOMAIN cal_mapping) = Expected(grid_size) - Cardinality(DeadInGrid)
        /\ DOMAIN cal_mapping = GridSites(grid_size) \ DeadInGrid
        /\ Range(cal_results.missing) = DeadInGrid
        /\ Len(cal_results.missing) = Cardinality(DeadInGrid)

\* C11: process_image returns a vector of exactly num_qubits values, each 0
\* or 1, and the state of every index whose grid site is absent from the
\* mapping is 0 whatever the frame and the background contain.
C11_DecodeDefault ==
    call.fn = "process_image" =>
        /\ DOMAIN states = 0 .. call.num_qubits - 1
        /\ \A i \in DOMAIN states :
              /\ states[i] \in {0, 1}
              /\ QubitSite(i) \notin DOMAIN mapping => states[i] = 0

C11_Witness ==
    /\ call.fn = "process_image"
    /\ <<2, 3>> \notin DOMAIN mapping
    /\ <<2, 3>> \in image
    /\ SiteQubit(<<2, 3>>) \in DOMAIN states
    /\ states[SiteQubit(<<2, 3>>)] = 0
    /\ \E i \in DOMAIN states : states[i] = 1

\* C18: for every mapped site process_image sets the state to 1 exactly when
\* clamp(((roi_mean - background_mean) / max(threshold - background_mean,
\* epsilon)) / c_max, 0, 1) > 0.5, the epsilon denominator being used whenever
\* threshold - background_mean is not above epsilon (threshold equal to or
\* below the background mean included).  On the integer scale of the model a
\* difference is above epsilon exactly when it is positive.
C18_DecodeRule ==
    call.fn = "process_image" =>
        \A i \in DOMAIN states :
            QubitSite(i) \in DOMAIN mapping =>
                LET roi_mean == RoiMean(image, mapping[QubitSite(i)])
                    background_mean == FrameMean(background_image)
                    d == call.thresh * ImgPixels - background_mean
                    above == IF d > 0
                             THEN 2 * CMaxDen * (roi_mean - background_mean) > CMaxNum * d
                             ELSE roi_mean - background_mean > 0
                IN states[i] = 1 <=> above

\* C12: a pulse that raises is contained to its operation.  The pulses sent so
\* far are those of the operations the gate loop has passed, one per operation
\* and in sequence order, whatever each pulse answered; the phases after the
\* gate loop are entered only with every operation dispatched; and no
\* exception that leaves _execute comes from a pulse.
C12_ActuationNonFatal ==
    LET HasPulse(op) == PulseFor(op) # <<>>
        due == SelectSeq(SubSeq(circuit, 1, gate_idx - 1), HasPulse)
        IsPulse(c) == c.by = "gate"
        sent == SelectSeq(cmds, IsPulse)
    IN /\ Len(sent) = Len(due)
       /\ \A k \in DOMAIN sent : sent[k].args = PulseFor(due[k])
       /\ pc \in {"dark", "viz", "decode", "assemble", "returned"}
             => gate_idx = Len(circuit) + 1
       /\ (pc = "raised" /\ cmds # <<>>) => cmds[Len(cmds)].by # "gate"

C12_Witness ==
    /\ Returned
    /\ \E k \in DOMAIN cmds :
          /\ cmds[k].by = "gate" /\ cmds[k].resp = "RAISE"
          /\ \E j \in DOMAIN cmds : j > k /\ cmds[j].by = "gate"
    /\ \E k \in DOMAIN cmds : cmds[k].type = "CAPTURE_FRAME"

\* C13: every command whose answer is not the literal OK is surfaced to the
\* caller as a failure, on the serial link and on the simulated device: no
\* fire_laser, apply_pulse or capture hands a non-OK answer back as its result.
\* In the command log an answer is "OK", "RAISE" (the call raised) or the text
\* the call returned.
C13_ProtocolFailure ==
    \A k \in DOMAIN cmds : cmds[k].resp # "OK" => cmds[k].resp = "RAISE"

\* C14: for every pattern of byte arrival receive_image either returns a frame
\* of exactly height * width bytes or raises the timeout failure once the
\* window has passed with the frame incomplete; it is never still waiting after
\* the window, bytes trickling in or not.
C14_BoundedReception ==
    call.fn = "receive_image" =>
        /\ call.out \in {"reading", "frame", "TimeoutError"}
        /\ call.out = "frame" => call.data = MaxFrameUnits
        /\ call.out = "TimeoutError" => call.data < MaxFrameUnits /\ call.elapsed > RecvWindow
        /\ call.out = "reading" => call.elapsed <= RecvWindow

\* C15: validate_calibration returns valid = true exactly when the mapping
\* holds every site of the calibrated grid, no two sites share a pixel
\* coordinate, and the x spread and the y spread (max minus min) are both at
\* least the minimum span; for every mapping, empty ones, ones with fewer than
\* four entries and ones with more entries than R * C included.
C15_ValidateExact ==
    ret.op = "validate_calibration" =>
        LET positions == {cal_mapping[k] : k \in DOMAIN cal_mapping}
            wide(vs) == \E lo \in vs, hi \in vs : hi - lo >= SpreadMin
        IN cal_report.valid <=>
              /\ GridSites(grid_size) \subseteq DOMAIN cal_mapping
              /\ Cardinality(positions) = Cardinality(DOMAIN cal_mapping)
              /\ wide({q[1] : q \in positions})
              /\ wide({q[2] : q \in positions})

\* C16: for jobs run one after another on one backend and one simulated
\* device, the bitstring of every trial is the function of its own measure
\* operations, its own oracle string and the mapping that a fresh device gives;
\* so two trials with the same circuit and the same oracle string return the
\* same bitstring, whatever the trials before them left in the device.
C16_RunDeterminism ==
    /\ \A i \in DOMAIN results :
          results[i].bitstring =
              ResultOfMeasures(results[i].circuit, results[i].oracle, mapping,
                               Len(results[i].oracle))
    /\ \A i, j \in DOMAIN results :
          (results[i].circuit = results[j].circuit /\ results[i].oracle = results[j].oracle)
              => results[i].bitstring = results[j].bitstring

C16_Witness ==
    /\ Len(results) = MaxTrials
    /\ results[1].bitstring = <<"1">>
    /\ results[2].circuit = results[1].circuit
    /\ results[2].bitstring = <<"1">>
    /\ results[1].circuit[1].name = "x"
    /\ Returned
    /\ sim_states # EmptyFn

\* C17: when the classical simulation raises, _execute does not propagate the
\* error; the oracle string is all zeros of length num_clbits, the
\* visualization drive fires no site, and with the full mapping on the
\* simulated device the returned bitstring is all zeros of length num_clbits.
C17_OracleFailure ==
    oracle_failed =>
        /\ pc # "raised"
        /\ bitstring_sim = Zeros(num_clbits)
        /\ viz_fired = {}
        /\ \A k \in DOMAIN cmds : cmds[k].by # "viz"
        /\ (Returned /\ mapping = FullMapping) => final_bitstring = Zeros(num_clbits)

C17_Witness ==
    /\ oracle_failed
    /\ Returned
    /\ mapping = FullMapping
    /\ Len(circuit) = 2
    /\ circuit[1].name = "x"
    /\ circuit[2].name = "measure"
    /\ circuit[2].qubits = circuit[1].qubits
    /\ final_bitstring = Zeros(MaxClbits)

\* C19: once the reset phase has ended, the reset firings are one FIRE_LASER
\* per site touched by an operation that is neither measure nor barrier, each
\* such site exactly once and no other site (a site only measured is not
\* fired), all of them before the first pulse; and with mock hardware the
\* simulated device's active set is empty when the phase ends and stays so
\* through the gate loop.
C19_ResetPhase ==
    LET touched == {QubitSite(q) : q \in
                      {r \in 0 .. MaxQubits - 1 :
                         \E i \in DOMAIN circuit :
                            /\ circuit[i].name \notin {"measure", "barrier"}
                            /\ \E n \in DOMAIN circuit[i].qubits : circuit[i].qubits[n] = r}}
        resets == {k \in DOMAIN cmds : cmds[k].by = "reset"}
    IN pc \in {"gates", "dark", "viz", "decode", "assemble", "returned"} =>
          /\ \A k \in resets :
                /\ cmds[k].type = "FIRE_LASER"
                /\ <<cmds[k].args[1], cmds[k].args[2]>> \in touched
                /\ cmds[k].args[3] = ResetDurationMs
                /\ \A j \in resets : cmds[j].args = cmds[k].args => j = k
                /\ \A j \in DOMAIN cmds : cmds[j].type = "APPLY_PULSE" => k < j
          /\ \A s \in touched : \E k \in resets : <<cmds[k].args[1], cmds[k].args[2]>> = s
          /\ (pc = "gates" /\ use_mock_hardware /\ link = "sim") => active_lasers = {}

C19_Witness ==
    /\ pc = "gates"
    /\ gate_idx = 1
    /\ use_mock_hardware
    /\ active_lasers = {}
    /\ Len(circuit) = 2
    /\ circuit[1].name = "h"
    /\ circuit[2].name = "measure"
    /\ circuit[2].qubits # circuit[1].qubits
    /\ Len(cmds) = 1

\* C20: after the gate loop, the APPLY_PULSE commands are one per operation
\* that is neither measure nor barrier (h, rz, ry, x, y, s, t, cp), in sequence
\* order, each addressed to the operation's qubits with carrier, amplitude,
\* duration and phase fixed by the operation's name and angle; measure and
\* barrier operations cause no command.
C20_GateDispatch ==
    LET IsGate(op) == op.name \notin {"measure", "barrier"}
        ops == SelectSeq(circuit, IsGate)
        IsPulse(c) == c.by = "gate"
        sent == SelectSeq(cmds, IsPulse)
    IN pc \in {"dark", "viz", "decode", "assemble", "returned"} =>
          /\ Len(sent) = Len(ops)
          /\ \A k \in DOMAIN sent :
                /\ sent[k].type = "APPLY_PULSE"
                /\ sent[k].args[1] = ops[k].qubits[1]
                /\ \A j \in DOMAIN sent :
                      (ops[j].name = ops[k].name /\ ops[j].param = ops[k].param)
                          => SubSeq(sent[j].args, 3, 6) = SubSeq(sent[k].args, 3, 6)

\* C21: the measurement map built by _execute has one entry per classical bit;
\* entry c is the qubit of the last measure operation, in sequence order, that
\* writes classical bit c, and is None exactly when no measure writes c.
C21_MeasurementMap ==
    pc \in {"dark", "viz", "decode", "assemble", "returned"} =>
        /\ Len(measured_map) = num_clbits
        /\ \A c \in 0 .. num_clbits - 1 :
              LET writers == {i \in DOMAIN circuit :
                                circuit[i].name = "measure" /\ circuit[i].clbit = c}
              IN /\ (measured_map[c + 1] = None) <=> (writers = {})
                 /\ writers # {} =>
                       \E i \in writers :
                          /\ \A j \in writers : j <= i
                          /\ measured_map[c + 1] = circuit[i].qubits[1]

C21_Witness ==
    /\ Returned
    /\ Len(circuit) = 2
    /\ circuit[1].name = "measure" /\ circuit[2].name = "measure"
    /\ circuit[1].clbit = 0 /\ circuit[2].clbit = 0
    /\ circuit[1].qubits # circuit[2].qubits
    /\ measured_map[1] = circuit[2].qubits[1]
    /\ measured_map[2] = None

\* C22: every calibration run starts from an empty mapping: when
\* perform_calibration or auto_calibrate has returned, the mapping holds an
\* entry for a site only if the site was detected during this run, whatever
\* the mapping held before.  A site detected during the run is one of the
\* sites the run swept.
C22_StartsEmpty ==
    SweepReturned =>
        \A s \in DOMAIN cal_mapping : \E i \in DOMAIN cal_visited : cal_visited[i] = s

\* C23: in auto_calibrate the background frame is captured once, before any
\* site of the sweep is fired, and it shows no lit site, whatever was sent to
\* the device before the calibration started.
C23_DarkBackground ==
    ret.op = "auto_calibrate" =>
        /\ cal_background = {}
        /\ cal_visited = <<>> => cal_pos = 0

\* C24: saving a mapping m and loading it back, through the file or through
\* the database, into a manager holding any mapping leaves the manager's
\* mapping equal to m, site keys and pixel coordinates alike; each entry of a
\* stored document sits under the key "row_col" and holds a two-element array.
C24_PersistenceRoundTrip ==
    /\ \A kind \in StoreKinds :
          stored[kind].exists =>
             LET m == stored[kind].of
                 doc == stored[kind].mapping
             IN /\ DOMAIN doc = {IntStr(k[1]) \o <<"_">> \o IntStr(k[2]) : k \in DOMAIN m}
                /\ \A k \in DOMAIN m :
                      /\ doc[IntStr(k[1]) \o <<"_">> \o IntStr(k[2])].list = m[k]
                      /\ Len(m[k]) = 2
    /\ ret.op = "load_mapping" =>
          \/ ~stored[ret.val[1]].exists /\ ret.val[2] = "FileNotFoundError"
          \/ /\ stored[ret.val[1]].exists
             /\ ret.val[2] = "None"
             /\ cal_mapping = stored[ret.val[1]].of

C24_Witness ==
    /\ ret.op = "load_mapping"
    /\ ret.val = <<"file", "None">>
    /\ stored.db.exists
    /\ stored.db.of = FullMapping
    /\ cal_mapping = stored.file.of
    /\ <<1, 12>> \in DOMAIN cal_mapping
    /\ <<11, 2>> \in DOMAIN cal_mapping

\* C25: in every CLI command that opens a device link the link is closed
\* exactly once before the command returns, on the success path and on every
\* error path reached after the link was opened (mapping not found, incomplete
\* mapping, execution error), and it is never closed when opening it failed.
C25_ScopedRelease ==
    /\ cli.closed <= cli.opened
    /\ cli.opened <= 1
    /\ cli.at = "done" => cli.closed = cli.opened
    /\ cli.error = "SerialException" => (cli.opened = 0 /\ cli.closed = 0)
    /\ (cli.at = "done" /\ cli.error # "SerialException") => cli.closed = 1

C25_Witness ==
    /\ cli.at = "done"
    /\ cli.error = "incomplete mapping"
    /\ cli.opened = 1
    /\ cli.closed = 1
    /\ ~cli.mock


\* C26: the calibration mapping is read-only outside calibration: no step of
\* _execute (process_image included) and no job method changes the mapping the
\* backend holds, so after any sequence of jobs it is the mapping the backend
\* was constructed with.
C26_MappingReadOnly == [][mapping' = mapping]_vars

C26_Witness ==
    /\ Returned
    /\ Len(results) = MaxTrials
    /\ DOMAIN mapping # {}
    /\ \E c \in 0 .. num_clbits - 1 : Mapped(c)


\* the final bit of classical index c
FinalBit(c) == final_bitstring[(num_clbits - 1 - c) + 1]

\* C27: shared readout sites.  On the simulated device with the full mapping
\* the final bit of classical index c is '1' exactly when some classical index
\* whose measurement-map entry is the site of c has oracle bit '1', and '0'
\* when c is unmapped, whatever sites were active before the run and whichever
\* sites the reset phase fired.
C27_SharedReadout ==
    (Returned /\ mapping = FullMapping) =>
        \A c \in 0 .. num_clbits - 1 :
            /\ ~Mapped(c) => FinalBit(c) = "0"
            /\ Mapped(c) =>
                  ((FinalBit(c) = "1") <=>
                      \E c2 \in 0 .. num_clbits - 1 :
                          /\ measured_map[c2 + 1] = measured_map[c + 1]
                          /\ OracleBit(c2) = "1")

C27_Witness ==
    /\ Returned
    /\ mapping = FullMapping
    /\ \E c, c2 \in 0 .. num_clbits - 1 :
          /\ c # c2
          /\ Mapped(c)
          /\ measured_map[c2 + 1] = measured_map[c + 1]
          /\ OracleBit(c) = "0"
          /\ OracleBit(c2) = "1"
          /\ FinalBit(c) = "1"
          /\ QubitSite(measured_map[c + 1]) \in FireInputs


\* C28: when backend execution raises during result(), the error reaches the
\* caller, the job caches no result and its status does not become DONE; the
\* next result() call on the job executes the circuit again.
C28_FailedResult ==
    /\ [][(pc # "raised" /\ pc' = "raised")
             => (ret'.op = "result" /\ ret'.val[1] = "EXC" /\ ~ret'.cached)]_vars
    /\ [](pc = "raised" =>
             /\ job_result = NoResult
             /\ job_status # "DONE"
             /\ ~ENABLED ResultCached
             /\ exec_starts < MaxExec => ENABLED ResultCall)
    /\ [][(pc = "raised" /\ ret'.op = "result")
             => /\ pc' = "oracle"
                /\ exec_starts' = exec_starts + 1
                /\ cmds' = <<>>]_vars

C28_Witness ==
    /\ pc = "raised"
    /\ exec_starts = 2
    /\ exec_done = 0
    /\ job_status = "RUNNING"
    /\ cmds # <<>>


\* C29: fire_laser with a row or column outside 0..7 raises and sends no
\* command, so the active-site set and the site states of the simulated device
\* are unchanged; for a position inside 0..7 exactly one FIRE_LASER command
\* carrying that row, column and duration is sent.
C29_FireLaserRange ==
    [][ret'.op = "fire_laser"
          => IF ret'.pos[1] \in 0 .. 7 /\ ret'.pos[2] \in 0 .. 7
             THEN /\ Len(ret'.sent) = 1
                  /\ ret'.sent[1].type = "FIRE_LASER"
                  /\ ret'.sent[1].args = <<ret'.pos[1], ret'.pos[2], ret'.duration>>
                  /\ ret'.val[1] # "EXC"
             ELSE /\ ret'.sent = <<>>
                  /\ ret'.val = <<"EXC", "ValueError">>
                  /\ active_lasers' = active_lasers
                  /\ sim_states' = sim_states]_vars

C29_Witness ==
    /\ ret.op = "fire_laser"
    /\ ret.pos = <<0, GridWidth>>
    /\ ret.duration = ResetDurationMs
    /\ ret.sent = <<>>
    /\ ret.val[1] = "EXC"
    /\ active_lasers = {<<0, 0>>, <<7, 7>>, <<0, 7>>}

\* C30: every APPLY_PULSE command _execute issues to the simulated device (for
\* h, rz, ry, cp and x operations, carrier 2.5 GHz) is answered OK.
C30_PulseAnsweredOK ==
    link = "sim" =>
        \A k \in DOMAIN cmds : cmds[k].type = "APPLY_PULSE" => cmds[k].resp = "OK"

====
